---- MODULE Spec2Model ----
(***************************************************************************)
(* Model of mcrouter's incremental wire parser (McParser.cpp): the read    *)
(* buffer (a folly::IOBuf: an allocation, a data offset and a length), the *)
(* protocol detection on the first byte, the Umbrella/Caret dispatch loop  *)
(* and the shrink step.  The connection owner is the environment: it calls *)
(* getReadBuffer, receives bytes from the socket into the returned region  *)
(* and calls readDataAvailable(n).                                         *)
(***************************************************************************)
EXTENDS Integers, Sequences, FiniteSets, TLC

(***************************************************************************)
(* Bounds of the model.                                                    *)
(***************************************************************************)
\* bytes that arrive on a binary connection
MaxWire == 7
\* bytes that arrive on a connection that started with no binary magic
MaxAsciiWire == 3
\* largest body size of a frame of the catalogue
MaxBody == 2
\* largest min_buffer_size / max_buffer_size handed to the constructor
MaxCfgSize == 2

(***************************************************************************)
(* Program constants.                                                      *)
(***************************************************************************)
\* McParser.cpp:25
kAdjustBufferSizeInterval == 10000
\* first byte of an Umbrella message (ENTRY_LIST_MAGIC_BYTE, '}')
kUmbrellaMagicByte == 125
\* first byte of a Caret message ('^')
kCaretMagicByte == 94
\* first byte of an ASCII command verb ('g' of "get")
kAsciiLetter == 103
\* bytes of the fixed part of an Umbrella header: magic, nentries, body size
kUmbrellaFixedHeader == 3
\* bytes of a Caret header: magic, body size
kCaretHeader == 2
\* largest body size a header may declare (implementation maximum)
kMaxBodySize == 8
\* a byte that starts no known protocol
kGarbageByte == 255
\* headerSize and bodySize are unsigned 32-bit fields and their sum is
\* taken at that width; the step-wise loop keeps the wrap at a width of
\* three bits
kSizeModulus == 8
\* content of memory that was allocated and never written
Junk == 0 - 1

Min(a, b) == IF a <= b THEN a ELSE b
Max(a, b) == IF a >= b THEN a ELSE b

(***************************************************************************)
(* folly::IOBuf as McParser uses it.  mem is the allocation (its length is *)
(* the capacity), off the headroom (data_ - buf_), len the length of the   *)
(* pending region, nodump whether the allocation came from the nodump      *)
(* allocator.                                                              *)
(***************************************************************************)
JunkMem(n) == [i \in 1..n |-> Junk]

capacity(b) == Len(b.mem)
headroom(b) == b.off
length(b) == b.len
tailroom(b) == Len(b.mem) - b.off - b.len
data(b) == SubSeq(b.mem, b.off + 1, b.off + b.len)

\* IOBuf(CREATE, capacity): the allocator may round the capacity up
create(size, slack) ==
    [mem |-> JunkMem(size + slack), off |-> 0, len |-> 0, nodump |-> FALSE]

\* clear that keeps the pending bytes
clear_keep(b) == b

\* IOBuf::clear(): data_ = buf_, length_ = 0
clear(b) == [b EXCEPT !.off = 0, !.len = 0]

\* memmove of the pending region to offset newOff inside the allocation
MoveData(b, newOff) ==
    [b EXCEPT
       !.mem = [i \in 1..Len(b.mem) |->
                   IF i > newOff /\ i <= newOff + b.len
                   THEN b.mem[b.off + (i - newOff)]
                   ELSE b.mem[i]],
       !.off = newOff]

\* retreat that moves the cursor and forgets the bytes
retreat_cursor_only(b, amount) == [b EXCEPT !.off = @ - amount]

\* IOBuf::retreat(amount): shift the data towards the start of the buffer
retreat(b, amount) == MoveData(b, b.off - amount)

\* IOBuf::reserve(minHeadroom, minTailroom).  slack is what the allocator
\* adds to the requested size.  A reallocation is modelled as malloc, copy
\* and free: the new block has exactly minHeadroom bytes of headroom.
reserve(b, minHeadroom, minTailroom, slack) ==
    IF headroom(b) >= minHeadroom /\ tailroom(b) >= minTailroom
    THEN b
    ELSE IF b.len = 0 /\ headroom(b) + tailroom(b) >= minHeadroom + minTailroom
    THEN [b EXCEPT !.off = minHeadroom]
    ELSE IF headroom(b) + tailroom(b) >= minHeadroom + minTailroom
    THEN MoveData(b, minHeadroom)
    ELSE LET newCap == minHeadroom + b.len + minTailroom + slack
         IN [mem |-> [i \in 1..newCap |->
                         IF i > minHeadroom /\ i <= minHeadroom + b.len
                         THEN b.mem[b.off + (i - minHeadroom)]
                         ELSE Junk],
             off |-> minHeadroom, len |-> b.len, nodump |-> FALSE]

\* IOBuf::append(n): the n bytes after the pending region join it
append(b, n) == [b EXCEPT !.len = @ + n]

\* trimStart that drops the whole pending region
trimStart_all(b, n) == [b EXCEPT !.off = 0, !.len = 0]

\* IOBuf::trimStart(n): advance the read cursor, no memory moves
trimStart(b, n) == [b EXCEPT !.off = @ + n, !.len = @ - n]

\* the owner's recv() into the region getReadBuffer returned
WriteTail(b, bytes) ==
    [b EXCEPT !.mem = [i \in 1..Len(b.mem) |->
                          IF i > b.off + b.len /\ i <= b.off + b.len + Len(bytes)
                          THEN bytes[i - b.off - b.len]
                          ELSE b.mem[i]]]

\* copyToNodumpBuffer that pulls one byte too few
copyToNodumpBuffer_short(umMsgInfo, readBuffer) ==
    LET bufSize == umMsgInfo.headerSize + umMsgInfo.bodySize
    IN [mem |-> [i \in 1..bufSize |->
                    IF i < readBuffer.len
                    THEN readBuffer.mem[readBuffer.off + i]
                    ELSE Junk],
        off |-> 0, len |-> readBuffer.len, nodump |-> TRUE]

\* copyToNodumpBuffer: a block of exactly headerSize + bodySize bytes from
\* the nodump allocator, the pending bytes pulled to its start
copyToNodumpBuffer(umMsgInfo, readBuffer) ==
    LET bufSize == umMsgInfo.headerSize + umMsgInfo.bodySize
    IN [mem |-> [i \in 1..bufSize |->
                    IF i <= readBuffer.len
                    THEN readBuffer.mem[readBuffer.off + i]
                    ELSE Junk],
        off |-> 0, len |-> readBuffer.len, nodump |-> TRUE]

(***************************************************************************)
(* Protocol detection and the binary header parsers.  Their code is not in *)
(* McParser.cpp; they follow the design document: a fixed table on the     *)
(* first byte, and pure functions from (bytes, length) to                  *)
(* OK(headerSize, bodySize) / NOT_ENOUGH_DATA / MESSAGE_PARSE_ERROR.       *)
(***************************************************************************)
determineProtocol(firstByte) ==
    IF firstByte = kUmbrellaMagicByte THEN "mc_umbrella_protocol"
    ELSE IF firstByte = kCaretMagicByte THEN "mc_caret_protocol"
    ELSE IF firstByte = kAsciiLetter THEN "mc_ascii_protocol"
    ELSE "mc_unknown_protocol"

mc_protocol_to_string(protocol) ==
    IF protocol = "mc_umbrella_protocol" THEN "umbrella"
    ELSE IF protocol = "mc_caret_protocol" THEN "caret"
    ELSE IF protocol = "mc_ascii_protocol" THEN "ascii"
    ELSE "unknown"

NoInfo == [headerSize |-> 0, bodySize |-> 0]

\* Umbrella: magic, number of one-byte entries, body size, entries, body.
\* OK is reported as soon as the fixed part is there, so the header itself
\* (fixed part and entries) may still be incomplete.
umbrellaParseHeader(buf) ==
    IF Len(buf) = 0 THEN [status |-> "NOT_ENOUGH_DATA", info |-> NoInfo]
    ELSE IF buf[1] # kUmbrellaMagicByte
    THEN [status |-> "MESSAGE_PARSE_ERROR", info |-> NoInfo]
    ELSE IF Len(buf) < kUmbrellaFixedHeader
    THEN [status |-> "NOT_ENOUGH_DATA", info |-> NoInfo]
    ELSE IF buf[3] > kMaxBodySize \/ buf[3] < 0 \/ buf[2] < 0 \/ buf[2] > kMaxBodySize
    THEN [status |-> "MESSAGE_PARSE_ERROR", info |-> NoInfo]
    ELSE [status |-> "OK",
          info |-> [headerSize |-> kUmbrellaFixedHeader + buf[2],
                    bodySize |-> buf[3]]]

\* Caret: magic, body size, body.
caretParseHeader(buf) ==
    IF Len(buf) = 0 THEN [status |-> "NOT_ENOUGH_DATA", info |-> NoInfo]
    ELSE IF buf[1] # kCaretMagicByte
    THEN [status |-> "MESSAGE_PARSE_ERROR", info |-> NoInfo]
    ELSE IF Len(buf) < kCaretHeader
    THEN [status |-> "NOT_ENOUGH_DATA", info |-> NoInfo]
    ELSE IF buf[2] > kMaxBodySize \/ buf[2] < 0
    THEN [status |-> "MESSAGE_PARSE_ERROR", info |-> NoInfo]
    ELSE [status |-> "OK",
          info |-> [headerSize |-> kCaretHeader, bodySize |-> buf[2]]]

ParseHeader(protocol, buf) ==
    IF protocol = "mc_umbrella_protocol" THEN umbrellaParseHeader(buf)
    ELSE caretParseHeader(buf)

IsBinary(protocol) ==
    protocol = "mc_umbrella_protocol" \/ protocol = "mc_caret_protocol"


(***************************************************************************)
(* McParser.  A parser is a record of the members of the class.            *)
(***************************************************************************)
\* McParser::McParser
McParser(minBufferSize, maxBufferSize, useJemallocNodumpAllocator, slack) ==
    [bufferSize_ |-> minBufferSize,
     maxBufferSize_ |-> maxBufferSize,
     readBuffer_ |-> create(minBufferSize, slack),
     useJemallocNodumpAllocator_ |-> useJemallocNodumpAllocator,
     seenFirstByte_ |-> FALSE,
     protocol_ |-> "mc_unknown_protocol",
     outOfOrder_ |-> FALSE,
     parsedMessages_ |-> 0,
     umMsgInfo_ |-> NoInfo]

\* McParser::reset
reset(p) == [p EXCEPT !.readBuffer_ = clear(@)]

\* McParser::reportMsgRead, called by the owner for each message it accepts
reportMsgRead(p) == [p EXCEPT !.parsedMessages_ = @ + 1]

ShrinkCondition(p) ==
    /\ p.parsedMessages_ >= kAdjustBufferSizeInterval
    /\ capacity(p.readBuffer_) > p.maxBufferSize_
    /\ length(p.readBuffer_) = 0

\* shrinkBuffer that does not look at the capacity
shrinkBuffer_any_capacity(p, slack) ==
    IF p.parsedMessages_ >= kAdjustBufferSizeInterval
       /\ length(p.readBuffer_) = 0
    THEN LET newSize == Min(p.bufferSize_, p.maxBufferSize_)
         IN [p EXCEPT !.parsedMessages_ = 0,
                      !.bufferSize_ = newSize,
                      !.readBuffer_ = create(newSize, slack)]
    ELSE p

\* shrinkBuffer that leaves the counter alone
shrinkBuffer_keep_count(p, slack) ==
    IF ShrinkCondition(p)
    THEN LET newSize == Min(p.bufferSize_, p.maxBufferSize_)
         IN [p EXCEPT !.bufferSize_ = newSize,
                      !.readBuffer_ = create(newSize, slack)]
    ELSE p

\* McParser::shrinkBuffer
shrinkBuffer(p, slack) ==
    IF ShrinkCondition(p)
    THEN LET newSize == Min(p.bufferSize_, p.maxBufferSize_)
         IN [p EXCEPT !.parsedMessages_ = 0,
                      !.bufferSize_ = newSize,
                      !.readBuffer_ = create(newSize, slack)]
    ELSE p

\* getReadBuffer that never reserves
getReadBufferAdjust_no_reserve(p, slack) ==
    LET b == p.readBuffer_
    IN IF length(b) = 0 /\ capacity(b) > 0
       THEN [p EXCEPT !.readBuffer_ = clear(b)]
       ELSE IF headroom(b) > 0
       THEN [p EXCEPT !.readBuffer_ = retreat(b, headroom(b))]
       ELSE p

\* McParser::getReadBuffer: the buffer after the adjustment
getReadBufferAdjust(p, slack) ==
    LET b == p.readBuffer_
    IN IF length(b) = 0 /\ capacity(b) > 0
       THEN [p EXCEPT !.readBuffer_ = clear(b)]
       ELSE IF headroom(b) > 0
       THEN [p EXCEPT !.readBuffer_ = retreat(b, headroom(b))]
       ELSE [p EXCEPT !.readBuffer_ = reserve(b, 0, p.bufferSize_, slack)]

\* McParser::getReadBuffer: the length of the region it returns
getReadBufferLen(p) == Min(tailroom(p.readBuffer_), p.bufferSize_)

(***************************************************************************)
(* The owner's callbacks.  An event is what the parser handed to one of    *)
(* them.  ch.accept is the number of frames the message callback accepts   *)
(* before it returns false.                                                *)
(***************************************************************************)
MessageEvent(p, info, ok) ==
    [cb |-> IF p.protocol_ = "mc_umbrella_protocol"
            THEN "umMessageReady" ELSE "caretMessageReady",
     info |-> info,
     frame |-> SubSeq(data(p.readBuffer_), 1, info.headerSize + info.bodySize),
     ok |-> ok]

\* parseError with the local error code
ParseErrorEvent_local(p) ==
    [cb |-> "parseError",
     code |-> "mc_res_local_error",
     msg |-> <<"Error parsing", mc_protocol_to_string(p.protocol_), "header">>]

ParseErrorEvent(p) ==
    [cb |-> "parseError",
     code |-> "mc_res_remote_error",
     msg |-> <<"Error parsing", mc_protocol_to_string(p.protocol_), "header">>]

AsciiEvent(p) == [cb |-> "handleAscii", buf |-> data(p.readBuffer_)]

DispatchResult(p, ret, ev, grew, copied, logged) ==
    [p |-> p, ret |-> ret, ev |-> ev, grew |-> grew, copied |-> copied,
     logged |-> logged]

\* Case 3 that reserves for the old target size
WaitForBody_old_size(p, ev, ch) ==
    LET b == p.readBuffer_
        messageSize == p.umMsgInfo_.headerSize + p.umMsgInfo_.bodySize
        grow == length(b) + tailroom(b) < messageSize
        newSize == Max(p.bufferSize_, messageSize)
        p1 == IF grow
              THEN [p EXCEPT !.bufferSize_ = newSize,
                             !.readBuffer_ =
                                 reserve(b, 0, Max(p.bufferSize_ - length(b), 0),
                                         ch.slack)]
              ELSE p
    IN IF ~p1.useJemallocNodumpAllocator_
       THEN DispatchResult(p1, "true", ev, grow, FALSE, FALSE)
       ELSE IF ch.allocOk
       THEN DispatchResult(
                [p1 EXCEPT !.readBuffer_ =
                               copyToNodumpBuffer(p1.umMsgInfo_, p1.readBuffer_)],
                "true", ev, grow, TRUE, FALSE)
       ELSE DispatchResult(p1, "bad_alloc", ev, grow, FALSE, TRUE)

\* Case 3 that goes on without the nodump buffer when the allocation fails
WaitForBody_swallow(p, ev, ch) ==
    LET b == p.readBuffer_
        messageSize == p.umMsgInfo_.headerSize + p.umMsgInfo_.bodySize
        grow == length(b) + tailroom(b) < messageSize
        newSize == Max(p.bufferSize_, messageSize)
        p1 == IF grow
              THEN [p EXCEPT !.bufferSize_ = newSize,
                             !.readBuffer_ =
                                 reserve(b, 0, newSize - length(b), ch.slack)]
              ELSE p
    IN IF ~p1.useJemallocNodumpAllocator_ \/ ~ch.allocOk
       THEN DispatchResult(p1, "true", ev, grow, FALSE, FALSE)
       ELSE DispatchResult(
                [p1 EXCEPT !.readBuffer_ =
                               copyToNodumpBuffer(p1.umMsgInfo_, p1.readBuffer_)],
                "true", ev, grow, TRUE, FALSE)

\* Case 3 that copies to a nodump buffer only when it had to grow
WaitForBody_copy_on_growth(p, ev, ch) ==
    LET b == p.readBuffer_
        messageSize == p.umMsgInfo_.headerSize + p.umMsgInfo_.bodySize
        grow == length(b) + tailroom(b) < messageSize
        newSize == Max(p.bufferSize_, messageSize)
        p1 == IF grow
              THEN [p EXCEPT !.bufferSize_ = newSize,
                             !.readBuffer_ =
                                 reserve(b, 0, newSize - length(b), ch.slack)]
              ELSE p
    IN IF ~p1.useJemallocNodumpAllocator_ \/ ~grow
       THEN DispatchResult(p1, "true", ev, grow, FALSE, FALSE)
       ELSE IF ch.allocOk
       THEN DispatchResult(
                [p1 EXCEPT !.readBuffer_ =
                               copyToNodumpBuffer(p1.umMsgInfo_, p1.readBuffer_)],
                "true", ev, grow, TRUE, FALSE)
       ELSE DispatchResult(p1, "bad_alloc", ev, grow, FALSE, TRUE)

\* Case 3 of the loop: the full header is there, the body is not
WaitForBody(p, ev, ch) ==
    LET b == p.readBuffer_
        messageSize == p.umMsgInfo_.headerSize + p.umMsgInfo_.bodySize
        grow == length(b) + tailroom(b) < messageSize
        newSize == Max(p.bufferSize_, messageSize)
        p1 == IF grow
              THEN [p EXCEPT !.bufferSize_ = newSize,
                             !.readBuffer_ =
                                 reserve(b, 0, newSize - length(b), ch.slack)]
              ELSE p
    IN IF ~p1.useJemallocNodumpAllocator_
       THEN DispatchResult(p1, "true", ev, grow, FALSE, FALSE)
       ELSE IF ch.allocOk
       THEN DispatchResult(
                [p1 EXCEPT !.readBuffer_ =
                               copyToNodumpBuffer(p1.umMsgInfo_, p1.readBuffer_)],
                "true", ev, grow, TRUE, FALSE)
       ELSE DispatchResult(p1, "bad_alloc", ev, grow, FALSE, TRUE)

\* McParser::readUmbrellaOrCaretData
RECURSIVE readUmbrellaOrCaretData(_, _, _, _)
readUmbrellaOrCaretData(p, ev, accept, ch) ==
    IF length(p.readBuffer_) = 0
    THEN DispatchResult(p, "true", ev, FALSE, FALSE, FALSE)
    ELSE
    LET parsed == ParseHeader(p.protocol_, data(p.readBuffer_))
    IN IF parsed.status = "NOT_ENOUGH_DATA"
       THEN DispatchResult(p, "true", ev, FALSE, FALSE, FALSE)
       ELSE IF parsed.status # "OK"
       THEN DispatchResult(p, "false", Append(ev, ParseErrorEvent(p)),
                           FALSE, FALSE, FALSE)
       ELSE
       LET p1 == [p EXCEPT !.umMsgInfo_ = parsed.info]
           messageSize == parsed.info.headerSize + parsed.info.bodySize
       IN IF length(p1.readBuffer_) >= messageSize
          THEN IF accept = 0
               THEN DispatchResult(
                        [p1 EXCEPT !.readBuffer_ = clear(@)], "false",
                        Append(ev, MessageEvent(p1, parsed.info, FALSE)),
                        FALSE, FALSE, FALSE)
               ELSE readUmbrellaOrCaretData(
                        [reportMsgRead(p1) EXCEPT
                            !.readBuffer_ = trimStart(@, messageSize)],
                        Append(ev, MessageEvent(p1, parsed.info, TRUE)),
                        accept - 1, ch)
          ELSE IF length(p1.readBuffer_) < parsed.info.headerSize
          THEN DispatchResult(p1, "true", ev, FALSE, FALSE, FALSE)
          ELSE WaitForBody(p1, ev, ch)

\* McParser::readDataAvailable.  The result also tells whether the shrink
\* step ran, whether its three conditions held when the dispatch ended
\* (cond) and whether the step replaced the buffer (shrunk).
CallResult(r, shrinkRan, p) ==
    [p |-> p, ret |-> r.ret, ev |-> r.ev, grew |-> r.grew,
     copied |-> r.copied, logged |-> r.logged,
     shrinkRan |-> shrinkRan, cond |-> ShrinkCondition(r.p),
     shrunk |-> p # r.p, before |-> r.p]

readDataAvailable(p, len, ch) ==
    LET p1 == [p EXCEPT !.readBuffer_ = append(@, len)]
        quiet(q, ret, ev) ==
            CallResult(DispatchResult(q, ret, ev, FALSE, FALSE, FALSE),
                       FALSE, q)
    IN IF length(p1.readBuffer_) = 0
       THEN quiet(p1, "true", <<>>)
       ELSE
       LET first == ~p1.seenFirstByte_
           proto == IF first THEN determineProtocol(data(p1.readBuffer_)[1])
                    ELSE p1.protocol_
           p2 == [p1 EXCEPT !.seenFirstByte_ = TRUE,
                            !.protocol_ = proto,
                            !.outOfOrder_ = IF first /\ IsBinary(proto) THEN TRUE
                                            ELSE IF first /\ proto = "mc_ascii_protocol"
                                            THEN FALSE ELSE @]
       IN IF first /\ ~IsBinary(proto) /\ proto # "mc_ascii_protocol"
          THEN quiet(p2, "false", <<>>)
          ELSE IF IsBinary(p2.protocol_)
          THEN LET r == readUmbrellaOrCaretData(p2, <<>>, ch.accept, ch)
               IN IF r.ret = "bad_alloc"
                  THEN CallResult(r, FALSE, r.p)
                  ELSE CallResult(r, TRUE, shrinkBuffer(r.p, ch.slack))
          ELSE quiet([p2 EXCEPT !.readBuffer_ =
                          trimStart(@, Min(ch.asciiTake, length(@)))],
                     "true", <<AsciiEvent(p2)>>)


(***************************************************************************)
(* The traffic.  A segment is a frame of the catalogue, a byte that starts *)
(* no protocol, or an ASCII letter.  Body bytes repeat the Caret magic, so *)
(* a body read as a header would parse.                                    *)
(***************************************************************************)
BodyBytes(bs) == [i \in 1..bs |-> IF i % 2 = 1 THEN kCaretMagicByte ELSE 0]

UmbrellaFrame(nent, bs) ==
    <<kUmbrellaMagicByte, nent, bs>> \o [i \in 1..nent |-> 7] \o BodyBytes(bs)

CaretFrame(bs) == <<kCaretMagicByte, bs>> \o BodyBytes(bs)

FramesOf(protocol) ==
    IF protocol = "mc_caret_protocol"
    THEN {CaretFrame(0), CaretFrame(MaxBody)}
    ELSE IF protocol = "mc_umbrella_protocol"
    THEN {UmbrellaFrame(0, 0), UmbrellaFrame(1, MaxBody)}
    ELSE {<<kAsciiLetter>>}

\* what a connection can start with
FirstSegments ==
    FramesOf("mc_caret_protocol") \cup FramesOf("mc_umbrella_protocol")
        \cup {<<kAsciiLetter>>, <<kGarbageByte>>}

\* everything the ASCII handler can take from the buffer it is handed
kTakeAll == 64
\* a message callback that accepts every frame of a call
kAcceptAll == 64

(***************************************************************************)
(* State.  parser is the McParser; the rest is the connection owner and    *)
(* the history the properties are stated on.                               *)
(***************************************************************************)
VARIABLES
    parser,    \* the McParser object
    wire,      \* the bytes that arrived on the connection, in order
    fed,       \* bytes of wire committed with readDataAvailable
    base,      \* bytes of wire consumed or discarded: the pending region starts here
    pc,        \* "idle", or "acquired" between getReadBuffer and readDataAvailable
    maxLen,    \* the length the last getReadBuffer returned
    events,    \* every callback invocation so far, in order
    call,      \* what the last readDataAvailable call did
    hist,      \* facts about the whole run
    track,     \* the frame whose full header arrived and whose body is awaited
    done,      \* the last frame delivered, and how the buffer grew for it
    chunked,   \* a second parser with the same configuration, fed the same wire
    ctx,       \* a ProxyRequestContext, its owners and its sub-requests
    out,       \* what the context called, in order
    loop       \* a run of the dispatch loop, one iteration per step

parserVars == <<parser, wire, fed, base, pc, maxLen, events, call, hist,
                track, done, chunked>>

contextVars == <<ctx, out>>

vars == <<parser, wire, fed, base, pc, maxLen, events, call, hist, track,
          done, chunked, ctx, out, loop>>

\* no context and no loop run: the state of both outside their specifications
NoContext == [owner |-> "none"]

NoLoop == [at |-> "none"]

NoCall ==
    [n |-> 0, ret |-> "none", ev |-> <<>>, grew |-> FALSE, copied |-> FALSE,
     logged |-> FALSE, shrinkRan |-> FALSE, cond |-> FALSE, shrunk |-> FALSE,
     shrinkSize |-> 0, capBefore |-> 0, first |-> FALSE,
     allocFailed |-> FALSE, nodumpBefore |-> FALSE]

NoTrack == [open |-> FALSE, size |-> 0, capIncr |-> 0, dispGrow |-> 0,
            need |-> FALSE, threw |-> FALSE]

NoDone == [valid |-> FALSE, size |-> 0, capIncr |-> 0, dispGrow |-> 0,
           need |-> FALSE, threw |-> FALSE, cap |-> 0]

Idle(p) == [p |-> p, fed |-> 0, pc |-> "idle", maxLen |-> 0, events |-> <<>>,
            calls |-> 0]

Init ==
    \E minBufferSize \in 0..MaxCfgSize,
       maxBufferSize \in {0, MaxCfgSize},
       useNodump \in BOOLEAN, slack \in {0, 1} :
        /\ parser = McParser(minBufferSize, maxBufferSize, useNodump, slack)
        /\ chunked = Idle(parser)
        /\ wire = <<>>
        /\ fed = 0
        /\ base = 0
        /\ pc = "idle"
        /\ maxLen = 0
        /\ events = <<>>
        /\ call = NoCall
        /\ hist = [failed |-> FALSE, refused |-> FALSE, threw |-> FALSE,
                   bulk |-> 0, initCap |-> capacity(parser.readBuffer_),
                   slack |-> slack, minBufferSize |-> minBufferSize]
        /\ track = NoTrack
        /\ done = NoDone
        /\ ctx = NoContext
        /\ out = <<>>
        /\ loop = NoLoop

\* the frame at the front of the pending region has its full header but not
\* its full body
WaitingBody(p) ==
    /\ IsBinary(p.protocol_)
    /\ length(p.readBuffer_) > 0
    /\ LET parsed == ParseHeader(p.protocol_, data(p.readBuffer_))
       IN /\ parsed.status = "OK"
          /\ length(p.readBuffer_) >= parsed.info.headerSize
          /\ length(p.readBuffer_) <
                 parsed.info.headerSize + parsed.info.bodySize

Accepted(ev) == SelectSeq(ev, LAMBDA e : e.cb \in {"umMessageReady",
                                                   "caretMessageReady"} /\ e.ok)

Frames(ev) == [i \in 1..Len(Accepted(ev)) |-> Accepted(ev)[i].frame]

Sum(ev) ==
    LET RECURSIVE S(_)
        S(i) == IF i = 0 THEN 0 ELSE S(i - 1) + Len(ev[i])
    IN S(Len(ev))

(***************************************************************************)
(* Actions.  The allocator returns the requested size or one byte more,    *)
(* the same for every request of a run (hist.slack).  The message callback  *)
(* refuses at most one frame of a run: accept is the number of frames of   *)
(* the call it takes first.                                                *)
(***************************************************************************)
\* after a connection started, the peer sends frames of its protocol and
\* at most one byte that starts none
NextSegments(w) ==
    LET next == IF w = <<>> THEN FirstSegments
                ELSE FramesOf(determineProtocol(w[1]))
                         \cup (IF \E i \in 1..Len(w) : w[i] = kGarbageByte
                               THEN {} ELSE {<<kGarbageByte>>})
        limit == IF w = <<>> \/ IsBinary(determineProtocol(w[1]))
                 THEN MaxWire ELSE MaxAsciiWire
    IN {seg \in next : Len(w) + Len(seg) <= limit}

\* readDataAvailable returned false or threw: the owner is expected to
\* close the connection
Failed == hist.failed

\* a call hands out at most MaxWire \div kCaretHeader frames
AcceptChoices ==
    IF IsBinary(parser.protocol_) /\ ~hist.refused
    THEN (0..(MaxWire \div kCaretHeader - 1)) \cup {kAcceptAll}
    ELSE {kAcceptAll}

AllocOkChoices ==
    IF parser.useJemallocNodumpAllocator_ /\ IsBinary(parser.protocol_)
    THEN BOOLEAN ELSE {TRUE}

AsciiChoices ==
    IF parser.seenFirstByte_ /\ ~IsBinary(parser.protocol_)
    THEN {0, kTakeAll} ELSE {kTakeAll}

\* a segment arrives at the socket
Arrive ==
    /\ pc = "idle"
    /\ \E seg \in NextSegments(wire) : wire' = wire \o seg
    /\ UNCHANGED <<parser, fed, base, pc, maxLen, events, call, hist, track,
                   done, chunked>>
    /\ UNCHANGED <<ctx, out, loop>>

\* the owner calls getReadBuffer
GetReadBuffer ==
    /\ pc = "idle"
    /\ LET q == getReadBufferAdjust(parser, hist.slack)
       IN  /\ parser' = q
           /\ maxLen' = getReadBufferLen(q)
           /\ track' = IF track.open /\ capacity(q.readBuffer_) >
                                            capacity(parser.readBuffer_)
                       THEN [track EXCEPT !.capIncr = @ + 1]
                       ELSE track
    /\ pc' = "acquired"
    /\ UNCHANGED <<wire, fed, base, events, call, hist, done, chunked>>
    /\ UNCHANGED <<ctx, out, loop>>

\* The owner received n bytes into the region and calls
\* readDataAvailable(n).  n = 0 is tried on an empty pending region, where
\* the call returns early; on pending bytes it would only dispatch the same
\* bytes again.
ReadDataAvailable ==
    /\ pc = "acquired"
    /\ \E n \in (IF length(parser.readBuffer_) = 0 THEN 0 ELSE 1)
                     ..Min(maxLen, Len(wire) - fed),
          accept \in AcceptChoices, allocOk \in AllocOkChoices,
          asciiTake \in AsciiChoices :
        LET ch == [accept |-> accept, allocOk |-> allocOk,
                   slack |-> hist.slack, asciiTake |-> asciiTake]
            bytes == SubSeq(wire, fed + 1, fed + n)
            p0 == [parser EXCEPT !.readBuffer_ = WriteTail(@, bytes)]
        IN \E r \in {readDataAvailable(p0, n, ch)} :
        LET nAcc == Len(Accepted(r.ev))
            refused == \E i \in 1..Len(r.ev) :
                          r.ev[i].cb \in {"umMessageReady", "caretMessageReady"}
                          /\ ~r.ev[i].ok
            taken == Sum(Frames(r.ev))
                     + (IF r.ev # <<>> /\ r.ev[1].cb = "handleAscii"
                        THEN Len(r.ev[1].buf) - length(r.p.readBuffer_) ELSE 0)
            capUp == capacity(r.p.readBuffer_) > capacity(parser.readBuffer_)
            waiting == WaitingBody(r.p)
            size == r.p.umMsgInfo_.headerSize + r.p.umMsgInfo_.bodySize
        IN /\ parser' = r.p
           /\ fed' = fed + n
           /\ base' = IF refused THEN fed + n ELSE base + taken
           /\ events' = events \o r.ev
           /\ call' = [n |-> n, ret |-> r.ret, ev |-> r.ev, grew |-> r.grew,
                       copied |-> r.copied, logged |-> r.logged,
                       shrinkRan |-> r.shrinkRan, cond |-> r.cond,
                       shrunk |-> r.shrunk,
                       shrinkSize |-> Min(r.before.bufferSize_,
                                          parser.maxBufferSize_),
                       capBefore |-> capacity(r.before.readBuffer_),
                       first |-> ~parser.seenFirstByte_ /\ r.p.seenFirstByte_,
                       allocFailed |-> ~allocOk /\ waiting
                                       /\ parser.useJemallocNodumpAllocator_,
                       nodumpBefore |-> p0.readBuffer_.nodump]
           /\ hist' = [hist EXCEPT !.failed = @ \/ r.ret # "true",
                                   !.refused = @ \/ refused,
                                   !.threw = @ \/ r.ret = "bad_alloc"]
           /\ track' =
                IF ~waiting THEN NoTrack
                ELSE IF track.open /\ nAcc = 0
                THEN [track EXCEPT
                        !.capIncr = @ + (IF capUp THEN 1 ELSE 0),
                        !.dispGrow = @ + (IF r.grew THEN 1 ELSE 0),
                        !.threw = @ \/ r.ret = "bad_alloc"]
                ELSE [open |-> TRUE, size |-> size,
                      capIncr |-> IF capUp THEN 1 ELSE 0,
                      dispGrow |-> IF r.grew THEN 1 ELSE 0,
                      need |-> size > capacity(p0.readBuffer_),
                      threw |-> r.ret = "bad_alloc"]
           /\ done' =
                IF nAcc = 0 THEN done
                ELSE IF track.open
                THEN [valid |-> TRUE, size |-> track.size,
                      capIncr |-> track.capIncr, dispGrow |-> track.dispGrow,
                      need |-> track.need, threw |-> track.threw,
                      cap |-> capacity(p0.readBuffer_)]
                ELSE [valid |-> TRUE, size |-> Len(Frames(r.ev)[nAcc]),
                      capIncr |-> 0, dispGrow |-> 0,
                      need |-> FALSE, threw |-> FALSE,
                      cap |-> capacity(p0.readBuffer_)]
    /\ pc' = "idle"
    /\ maxLen' = 0
    /\ UNCHANGED <<wire, chunked>>
    /\ UNCHANGED <<ctx, out, loop>>

\* A fresh Caret connection serves kAdjustBufferSizeInterval - 1 empty
\* Caret frames, each in a getReadBuffer / readDataAvailable(2) cycle of its
\* own.  Every such cycle takes the clear branch of getReadBuffer, delivers
\* the frame and leaves the cursor after it, so the cycles differ in the
\* counter alone; wire and events describe the traffic after them.
BulkCaretTraffic ==
    /\ pc = "idle"
    /\ ~parser.seenFirstByte_
    /\ wire = <<>>
    /\ parser.bufferSize_ >= kCaretHeader
    /\ parser' = [parser EXCEPT
                    !.seenFirstByte_ = TRUE,
                    !.protocol_ = "mc_caret_protocol",
                    !.outOfOrder_ = TRUE,
                    !.parsedMessages_ = kAdjustBufferSizeInterval - 1,
                    !.umMsgInfo_ = [headerSize |-> kCaretHeader, bodySize |-> 0],
                    !.readBuffer_ =
                        trimStart(append(WriteTail(clear(@), CaretFrame(0)),
                                         kCaretHeader), kCaretHeader)]
    /\ hist' = [hist EXCEPT !.bulk = kAdjustBufferSizeInterval - 1]
    /\ UNCHANGED <<wire, fed, base, pc, maxLen, events, call, track,
                   done, chunked>>
    /\ UNCHANGED <<ctx, out, loop>>

Next ==
    \/ Arrive
    \/ GetReadBuffer
    \/ ReadDataAvailable
    \/ BulkCaretTraffic

Spec == Init /\ [][Next]_vars

(***************************************************************************)
(* Two parsers of the same configuration read the same byte sequence: one  *)
(* a byte per getReadBuffer / readDataAvailable(1) cycle (parser), the     *)
(* other as much per cycle as getReadBuffer offers (chunked), which is one *)
(* chunk when the sequence fits.  The callbacks accept every frame and the *)
(* ASCII handler takes everything.                                         *)
(***************************************************************************)
\* every byte sequence the peer can send
RECURSIVE WiresFrom(_)
WiresFrom(W) ==
    LET more == W \cup {w \o seg : w \in W, seg \in FirstSegments
                                    \cup {<<kGarbageByte>>}}
        ok == {w \in more : w = <<>> \/
                  \E v \in W : \E seg \in NextSegments(v) : w = v \o seg}
    IN IF ok = W THEN W ELSE WiresFrom(ok)

Wires == WiresFrom({<<>>})

InitEq ==
    \E minBufferSize \in 0..(MaxCfgSize + MaxWire - 1),
       useNodump \in BOOLEAN, slack \in {0, 1} :
        /\ parser = McParser(minBufferSize, MaxCfgSize, useNodump, slack)
        /\ chunked = Idle(parser)
        /\ wire \in Wires
        /\ fed = 0
        /\ base = 0
        /\ pc = "idle"
        /\ maxLen = 0
        /\ events = <<>>
        /\ call = NoCall
        /\ hist = [failed |-> FALSE, refused |-> FALSE, threw |-> FALSE,
                   bulk |-> 0, initCap |-> capacity(parser.readBuffer_),
                   slack |-> slack, minBufferSize |-> minBufferSize]
        /\ track = NoTrack
        /\ done = NoDone
        /\ ctx = NoContext
        /\ out = <<>>
        /\ loop = NoLoop

EqChoices(allocOk) ==
    [accept |-> kAcceptAll, allocOk |-> allocOk, slack |-> hist.slack,
     asciiTake |-> kTakeAll]

ByteGetReadBuffer ==
    /\ pc = "idle"
    /\ fed < Len(wire)
    /\ parser' = getReadBufferAdjust(parser, hist.slack)
    /\ maxLen' = getReadBufferLen(parser')
    /\ pc' = "acquired"
    /\ UNCHANGED <<wire, fed, base, events, call, hist, track, done, chunked>>
    /\ UNCHANGED <<ctx, out, loop>>

ByteReadDataAvailable ==
    /\ pc = "acquired"
    /\ maxLen >= 1
    /\ \E allocOk \in AllocOkChoices :
        LET p0 == [parser EXCEPT !.readBuffer_ = WriteTail(@, <<wire[fed + 1]>>)]
            r == readDataAvailable(p0, 1, EqChoices(allocOk))
        IN /\ parser' = r.p
           /\ events' = events \o r.ev
    /\ fed' = fed + 1
    /\ pc' = "idle"
    /\ maxLen' = 0
    /\ UNCHANGED <<wire, base, call, hist, track, done, chunked>>
    /\ UNCHANGED <<ctx, out, loop>>

ChunkGetReadBuffer ==
    /\ chunked.pc = "idle"
    /\ chunked.fed < Len(wire)
    /\ LET q == getReadBufferAdjust(chunked.p, hist.slack)
       IN chunked' = [chunked EXCEPT !.p = q, !.pc = "acquired",
                                     !.maxLen = getReadBufferLen(q)]
    /\ UNCHANGED <<parser, wire, fed, base, pc, maxLen, events, call, hist,
                   track, done>>
    /\ UNCHANGED <<ctx, out, loop>>

ChunkReadDataAvailable ==
    /\ chunked.pc = "acquired"
    /\ chunked.maxLen >= 1
    /\ \E allocOk \in (IF chunked.p.useJemallocNodumpAllocator_
                        THEN BOOLEAN ELSE {TRUE}) :
        LET n == Min(chunked.maxLen, Len(wire) - chunked.fed)
            bytes == SubSeq(wire, chunked.fed + 1, chunked.fed + n)
            p0 == [chunked.p EXCEPT !.readBuffer_ = WriteTail(@, bytes)]
            r == readDataAvailable(p0, n, EqChoices(allocOk))
        IN chunked' = [p |-> r.p, fed |-> chunked.fed + n, pc |-> "idle",
                       maxLen |-> 0, events |-> chunked.events \o r.ev,
                       calls |-> chunked.calls + 1]
    /\ UNCHANGED <<parser, wire, fed, base, pc, maxLen, events, call, hist,
                   track, done>>
    /\ UNCHANGED <<ctx, out, loop>>

NextEq ==
    \/ ByteGetReadBuffer
    \/ ByteReadDataAvailable
    \/ ChunkGetReadBuffer
    \/ ChunkReadDataAvailable

SpecEq == InitEq /\ [][NextEq]_vars

TypeOK ==
    /\ pc \in {"idle", "acquired"}
    /\ fed <= Len(wire)
    /\ base <= fed
    /\ parser.readBuffer_.off + parser.readBuffer_.len
           <= Len(parser.readBuffer_.mem)


(***************************************************************************)
(* Properties.                                                             *)
(***************************************************************************)
\* the complete frames at the front of a byte sequence, in order
RECURSIVE CompleteFrames(_, _)
CompleteFrames(protocol, buf) ==
    IF buf = <<>> THEN <<>>
    ELSE LET parsed == ParseHeader(protocol, buf)
             size == parsed.info.headerSize + parsed.info.bodySize
         IN IF parsed.status # "OK" \/ Len(buf) < size THEN <<>>
            ELSE <<SubSeq(buf, 1, size)>>
                     \o CompleteFrames(protocol, SubSeq(buf, size + 1, Len(buf)))

Committed == SubSeq(wire, 1, fed)

\* C1: on a binary connection whose callbacks never refused, the frames
\* handed to umMessageReady / caretMessageReady are the complete frames of
\* the committed bytes, in wire order and once each, and the pending region
\* is empty when the committed bytes end on a frame boundary.
C1_FramesInWireOrder ==
    (IsBinary(parser.protocol_) /\ ~hist.refused) =>
        LET expected == CompleteFrames(parser.protocol_, Committed)
        IN /\ Frames(events) = expected
           /\ Len(Accepted(events)) = Len(expected)
           /\ (Sum(expected) = fed => length(parser.readBuffer_) = 0)

\* two frames were delivered, the second one completed by a one-byte read
C1_Witness ==
    /\ IsBinary(parser.protocol_)
    /\ ~hist.refused
    /\ Len(Frames(events)) = 2
    /\ call.n = 1
    /\ Len(call.ev) = 1
    /\ length(parser.readBuffer_) = 0
    /\ fed = Len(wire)

\* C3: the pending region holds the committed bytes that were neither
\* consumed nor discarded, in order, whatever getReadBuffer, the dispatch
\* loop and the shrink step did to the buffer.
C3_PendingIsCommittedMinusConsumed ==
    data(parser.readBuffer_) = SubSeq(wire, base + 1, fed)

\* pending bytes that follow a consumed frame sit at the start of the
\* allocation after getReadBuffer
C3_Witness ==
    /\ pc = "acquired"
    /\ length(parser.readBuffer_) > 0
    /\ base > 0
    /\ headroom(parser.readBuffer_) = 0
    /\ ~parser.useJemallocNodumpAllocator_


\* C2: a byte sequence fed one byte per cycle and the same sequence fed in
\* the largest chunks getReadBuffer offers (a single chunk when it fits)
\* deliver the same frames in the same order, with and without the nodump
\* allocator.
C2_ByteAtATimeEqualsChunk ==
    (fed = Len(wire) /\ chunked.fed = Len(wire)) =>
        Frames(events) = Frames(chunked.events)

\* a sequence with two frames went through the nodump path byte by byte and
\* through the other parser in a single chunk
C2_Witness ==
    /\ fed = Len(wire)
    /\ chunked.fed = Len(wire)
    /\ chunked.calls = 1
    /\ Len(Frames(chunked.events)) = 2
    /\ parser.useJemallocNodumpAllocator_
    /\ \E i \in 1..2 : Len(Frames(events)[i]) > kCaretHeader


\* C4 (as claimed): once the first byte mapped to no known protocol, the
\* detecting call returned false and no callback ever fires for the parser.
C4_UnknownProtocolIsSilent ==
    (parser.seenFirstByte_ /\ parser.protocol_ = "mc_unknown_protocol") =>
        /\ events = <<>>
        /\ (call.first => call.ret = "false")

\* the bytes after the delivered frames start with a header the parser of
\* the connection's protocol reports as malformed
MalformedAtFront ==
    /\ IsBinary(parser.protocol_)
    /\ ~hist.refused
    /\ fed > 0
    /\ LET used == Sum(CompleteFrames(parser.protocol_, Committed))
       IN ParseHeader(parser.protocol_, SubSeq(wire, used + 1, fed)).status
              = "MESSAGE_PARSE_ERROR"

ParseErrors(ev) == SelectSeq(ev, LAMBDA e : e.cb = "parseError")

ReportsMalformedHeader ==
    /\ call.ret = "false"
    /\ Len(ParseErrors(call.ev)) = 1
    /\ call.ev[Len(call.ev)] =
           [cb |-> "parseError", code |-> "mc_res_remote_error",
            msg |-> <<"Error parsing",
                      IF parser.protocol_ = "mc_umbrella_protocol"
                      THEN "umbrella" ELSE "caret",
                      "header">>]
    /\ Len(Accepted(call.ev)) = Len(call.ev) - 1

\* C5 (as claimed): a malformed header is reported once as a remote error
\* naming the protocol, nothing is delivered after it, the call returns
\* false and the pending region is empty afterwards.
C5_MalformedHeaderDiscardsBuffer ==
    MalformedAtFront =>
        (ReportsMalformedHeader /\ length(parser.readBuffer_) = 0)

\* C5 (amended): as above, but the read buffer is left as it is: the
\* pending region still starts with the malformed header.
C5_MalformedHeaderKeepsBuffer ==
    MalformedAtFront =>
        /\ ReportsMalformedHeader
        /\ length(parser.readBuffer_) > 0
        /\ data(parser.readBuffer_) = SubSeq(wire, base + 1, fed)
        /\ base = Sum(CompleteFrames(parser.protocol_, Committed))

\* a frame and a malformed byte arrived in one chunk: the frame was
\* delivered, the error reported and the malformed byte is still pending
C5_Witness ==
    /\ MalformedAtFront
    /\ pc = "idle"
    /\ Len(call.ev) = 2
    /\ Len(Accepted(call.ev)) = 1
    /\ call.n > Len(Frames(call.ev)[1])
    /\ length(parser.readBuffer_) > 0

RefusedIn(ev) ==
    \E i \in 1..Len(ev) :
        ev[i].cb \in {"umMessageReady", "caretMessageReady"} /\ ~ev[i].ok

\* C6: when a message callback returns false the call returns false, the
\* refused frame is the last thing the call handed out and the pending
\* region is empty.
C6_RefusalClearsBuffer ==
    RefusedIn(call.ev) =>
        /\ call.ret = "false"
        /\ ~call.ev[Len(call.ev)].ok
        /\ Len(Accepted(call.ev)) = Len(call.ev) - 1
        /\ length(parser.readBuffer_) = 0

\* a chunk held a frame and the start of the next one; the frame was
\* refused and the bytes behind it went with it
C6_Witness ==
    /\ RefusedIn(call.ev)
    /\ pc = "idle"
    /\ Len(call.ev) = 1
    /\ call.n > Len(call.ev[1].frame)
    /\ base = fed

C8_MaxLenAtLeastOne == pc = "acquired" => maxLen >= 1

\* C8 (amended): it does for a parser constructed with min_buffer_size >= 1
\* and max_buffer_size >= 1.
C8_MaxLenAtLeastOneForPositiveSizes ==
    (pc = "acquired" /\ hist.minBufferSize >= 1 /\ parser.maxBufferSize_ >= 1)
        => maxLen >= 1

\* getReadBuffer after the shrink step replaced the buffer
C8_Witness ==
    /\ pc = "acquired"
    /\ call.shrunk
    /\ hist.minBufferSize >= 1
    /\ parser.maxBufferSize_ >= 1
    /\ maxLen >= 1

\* C9 (as claimed): for a delivered frame larger than the initial capacity,
\* the capacity was increased exactly once between the arrival of its full
\* header and its delivery, and the capacity is at least its size.
C9_ExactlyOneCapacityIncrease ==
    (done.valid /\ done.size > hist.initCap) =>
        (done.capIncr = 1 /\ done.cap >= done.size)

\* C9 (amended): between the arrival of a frame's full header and its
\* delivery the growth step of the dispatch loop runs at most once, and
\* exactly once when the frame did not fit the capacity the header arrived
\* in; from then on the capacity, and the pending bytes plus the tailroom,
\* are at least the frame's size.  The capacity itself may rise again in
\* getReadBuffer, or not at all when earlier traffic left a grown buffer.
C9_GrowthStepAtMostOnce ==
    /\ track.open =>
          /\ track.dispGrow <= 1
          /\ track.need => track.dispGrow = 1
          /\ capacity(parser.readBuffer_) >= track.size
          /\ length(parser.readBuffer_) + tailroom(parser.readBuffer_)
                 >= track.size
    /\ done.valid =>
          /\ done.dispGrow <= 1
          /\ done.need => done.dispGrow = 1
          /\ done.cap >= done.size

\* a frame larger than the initial capacity was delivered after the growth
\* step ran once and getReadBuffer raised the capacity once more
C9_Witness ==
    /\ done.valid
    /\ done.size > hist.initCap
    /\ done.need
    /\ done.dispGrow = 1
    /\ done.capIncr >= 2

\* C10 (as claimed): when the nodump allocation fails the failure is logged,
\* readDataAvailable returns normally and the pending bytes stay in the
\* buffer they were in.
C10_AllocationFailureReturnsNormally ==
    (pc = "idle" /\ call.allocFailed) =>
        /\ call.logged
        /\ call.ret = "true"
        /\ data(parser.readBuffer_) = SubSeq(wire, base + 1, fed)

\* C10 (amended): when the nodump allocation fails the failure is logged and
\* std::bad_alloc leaves readDataAvailable, past the shrink step; the
\* pending bytes stay in the buffer they were in, still waiting for the
\* body, and a connection that is fed further still gets every complete
\* frame.
C10_AllocationFailureThrows ==
    /\ (pc = "idle" /\ call.allocFailed) =>
          /\ call.logged
          /\ call.ret = "bad_alloc"
          /\ ~call.shrinkRan
          /\ ~call.copied
          /\ parser.readBuffer_.nodump = call.nodumpBefore
          /\ data(parser.readBuffer_) = SubSeq(wire, base + 1, fed)
          /\ WaitingBody(parser)
    /\ (hist.threw /\ ~hist.refused /\ IsBinary(parser.protocol_)) =>
          Frames(events) = CompleteFrames(parser.protocol_, Committed)

\* the allocation failed for a frame that was delivered by a later call
\* from a buffer of normal memory
C10_Witness ==
    /\ pc = "idle"
    /\ hist.threw
    /\ done.valid
    /\ done.threw
    /\ call.ret = "true"
    /\ Len(Accepted(call.ev)) = 1
    /\ ~call.nodumpBefore

(***************************************************************************)
(* ProxyRequestContext.  ctx.obj holds the members of the object; the rest *)
(* of ctx is who refers to it: the unique_ptr it is born under, the        *)
(* shared_ptr handle that process() or createRecording() returns, and the  *)
(* sub-requests (or traversals) of the route tree, each holding one        *)
(* reference and a number of steps still to take.  out lists what the      *)
(* context called: sendReplyImpl, the loggers, the recording callbacks,    *)
(* reqComplete_ and the baton.                                             *)
(***************************************************************************)
\* most sub-requests (or traversals) of one context
MaxSubRequests == 2
\* most backend replies of a sub-request, or destinations of a traversal
MaxSteps == 2
\* most sendReply calls on one context
MaxSendReply == 2
\* longest pending region the dispatch loop is started on
MaxLoopLen == 3
\* deliveries of one run of the dispatch loop that are followed
MaxIter == 3

Replies == {"r1", "r2"}

Destinations == {<<"poolA", 3, "ap1">>, <<"poolB", 0, "ap2">>}

\* the default member initialisers; recordingState_ shares its storage with
\* context_ and is read on a recording context only
Members ==
    [replied_ |-> FALSE, config_ |-> "nullptr", processing_ |-> FALSE,
     recording_ |-> FALSE,
     recordingState_ |-> [clientCallback |-> FALSE,
                          shardSplitCallback |-> FALSE],
     reqComplete_ |-> FALSE, logger_ |-> FALSE, additionalLogger_ |-> FALSE,
     req_ |-> "nullptr", baton |-> FALSE]

\* ProxyRequestContextTyped::ProxyRequestContextTyped; the base constructor
\* installs the loggers, and reqComplete is what the creator asked for
ProxyRequestContextTyped(reqComplete) ==
    [Members EXCEPT !.req_ = "req", !.logger_ = TRUE,
                    !.additionalLogger_ = TRUE, !.reqComplete_ = reqComplete]

\* ProxyRequestContext::createRecording and createRecordingNotify
createRecording(clientCallback, shardSplitCallback, baton) ==
    [Members EXCEPT !.recording_ = TRUE,
                    !.recordingState_ =
                        [clientCallback |-> clientCallback,
                         shardSplitCallback |-> shardSplitCallback],
                    !.baton = baton]

Effect(name) == [e |-> name]

\* recordDestination that does not look for the callback
recordDestination_unchecked(c, poolName, index, ap) ==
    IF c.recording_
    THEN <<[e |-> "clientCallback", args |-> <<poolName, index, ap>>]>>
    ELSE <<>>

\* ProxyRequestContext::recordDestination: the calls it makes
recordDestination(c, poolName, index, ap) ==
    IF c.recording_ /\ c.recordingState_.clientCallback
    THEN <<[e |-> "clientCallback", args |-> <<poolName, index, ap>>]>>
    ELSE <<>>

\* ProxyRequestContext::recordShardSplitter
recordShardSplitter(c, splitter) ==
    IF c.recording_ /\ c.recordingState_.shardSplitCallback
    THEN <<[e |-> "shardSplitCallback", args |-> <<splitter>>]>>
    ELSE <<>>

\* onReplyReceived that logs on a recording context too
onReplyReceived_always(c) == <<Effect("logger"), Effect("additionalLogger")>>

\* ProxyRequestContext::onReplyReceived
onReplyReceived(c) ==
    IF c.recording_ THEN <<>>
    ELSE <<Effect("logger"), Effect("additionalLogger")>>

\* sendReply that does not look at replied_
sendReply_again(c, reply) ==
    [c |-> [c EXCEPT !.replied_ = TRUE, !.req_ = "nullptr"],
     eff |-> <<[e |-> "sendReplyImpl", reply |-> reply]>>]

\* ProxyRequestContextTyped::sendReply: the object afterwards and the calls
\* made; a second call is detected and sends nothing
sendReply(c, reply) ==
    IF c.replied_
    THEN [c |-> c, eff |-> <<Effect("misuse")>>]
    ELSE [c |-> [c EXCEPT !.replied_ = TRUE, !.req_ = "nullptr"],
          eff |-> <<[e |-> "sendReplyImpl", reply |-> reply]>>]

\* a destructor that sends nothing for a request that got no reply
Destructor_silent(c) ==
    IF c.recording_
    THEN IF c.baton THEN <<Effect("baton.post")>> ELSE <<>>
    ELSE IF c.reqComplete_ /\ c.processing_
    THEN <<Effect("reqComplete")>> ELSE <<>>

\* a destructor that forgets the baton
Destructor_no_baton(c) ==
    IF c.recording_ THEN <<>>
    ELSE (IF c.replied_ THEN <<>>
          ELSE <<[e |-> "sendReplyImpl", reply |-> "error"]>>)
         \o (IF c.reqComplete_ /\ c.processing_
             THEN <<Effect("reqComplete")>> ELSE <<>>)

\* ProxyRequestContext::~ProxyRequestContext: a recording context posts its
\* baton, if it has one; another context that was never replied to sends
\* the error reply, and a context that was being processed tells its
\* completion hook
Destructor(c) ==
    IF c.recording_
    THEN IF c.baton THEN <<Effect("baton.post")>> ELSE <<>>
    ELSE (IF c.replied_ THEN <<>>
          ELSE <<[e |-> "sendReplyImpl", reply |-> "error"]>>)
         \o (IF c.reqComplete_ /\ c.processing_
             THEN <<Effect("reqComplete")>> ELSE <<>>)

\* ProxyRequestContextTyped::process: the configuration is saved and the
\* ownership becomes shared
process(x) ==
    [x EXCEPT !.obj.config_ = "config", !.obj.processing_ = TRUE,
              !.owner = "shared", !.refs = 1, !.handle = TRUE]

\* a shared_ptr that destroys the object when any reference goes
dropRef_eager(x) ==
    [x |-> [x EXCEPT !.refs = @ - 1, !.owner = "destroyed"],
     eff |-> Destructor(x.obj)]

\* a shared_ptr to the context goes away; the last one destroys the object
dropRef(x) ==
    IF x.refs = 1
    THEN [x |-> [x EXCEPT !.refs = 0, !.owner = "destroyed"],
          eff |-> Destructor(x.obj)]
    ELSE [x |-> [x EXCEPT !.refs = @ - 1], eff |-> <<>>]

NoLast == [op |-> "none", args |-> <<>>, at |-> 0]

NewContext(obj, owner) ==
    [obj |-> obj, owner |-> owner,
     refs |-> IF owner = "shared" THEN 1 ELSE 0,
     handle |-> owner = "shared",
     started |-> FALSE, subs |-> <<>>, launched |-> 0, sends |-> 0,
     last |-> NoLast]

Alive == ctx.owner \in {"unique", "shared"}

Remove(seq, i) == SubSeq(seq, 1, i - 1) \o SubSeq(seq, i + 1, Len(seq))

\* the last call on the context: what was called, with what, and how long
\* out was before it
Last(op, args) == [op |-> op, args |-> args, at |-> Len(out)]

InitCtx ==
    /\ parser = McParser(1, 1, FALSE, 0)
    /\ chunked = Idle(parser)
    /\ wire = <<>>
    /\ fed = 0
    /\ base = 0
    /\ pc = "idle"
    /\ maxLen = 0
    /\ events = <<>>
    /\ call = NoCall
    /\ hist = [failed |-> FALSE, refused |-> FALSE, threw |-> FALSE,
               bulk |-> 0, initCap |-> capacity(parser.readBuffer_),
               slack |-> 0, minBufferSize |-> 1]
    /\ track = NoTrack
    /\ done = NoDone
    /\ loop = NoLoop
    /\ out = <<>>
    /\ \/ \E reqComplete \in BOOLEAN :
             ctx = NewContext(ProxyRequestContextTyped(reqComplete), "unique")
       \/ \E clientCallback \in BOOLEAN, shardSplitCallback \in BOOLEAN,
             baton \in BOOLEAN :
             ctx = NewContext(createRecording(clientCallback,
                                              shardSplitCallback, baton),
                              "shared")

\* process(): the context is handed to its proxy thread
Process ==
    /\ ctx.owner = "unique"
    /\ ctx' = process(ctx)
    /\ UNCHANGED out
    /\ UNCHANGED <<parserVars, loop>>

\* startProcessing(): the route tree sends out sub-requests, each holding a
\* reference and expecting some backend replies
StartProcessing ==
    /\ ctx.owner = "shared"
    /\ ~ctx.obj.recording_
    /\ ~ctx.started
    /\ \E k \in 0..MaxSubRequests, n \in 1..MaxSteps :
          ctx' = [ctx EXCEPT !.started = TRUE,
                             !.subs = [i \in 1..k |-> n],
                             !.launched = k,
                             !.refs = @ + k]
    /\ UNCHANGED out
    /\ UNCHANGED <<parserVars, loop>>

\* a holder of the handle to a recording context enqueues a traversal that
\* will visit n route handles
Traverse ==
    /\ ctx.owner = "shared"
    /\ ctx.obj.recording_
    /\ ctx.handle
    /\ ctx.launched < MaxSubRequests
    /\ \E n \in 0..MaxSteps :
          ctx' = [ctx EXCEPT !.subs = Append(@, n), !.refs = @ + 1,
                             !.launched = @ + 1]
    /\ UNCHANGED out
    /\ UNCHANGED <<parserVars, loop>>

\* a sub-request got a backend reply and calls onReplyReceived
OnReplyReceived ==
    /\ Alive
    /\ \E i \in 1..Len(ctx.subs) :
          /\ ctx.subs[i] > 0
          /\ ctx' = [ctx EXCEPT !.subs[i] = @ - 1,
                                !.last = Last("onReplyReceived", <<>>)]
          /\ out' = out \o onReplyReceived(ctx.obj)
    /\ UNCHANGED <<parserVars, loop>>

\* a sub-request or traversal reached a destination
RecordDestination ==
    /\ Alive
    /\ \E i \in 1..Len(ctx.subs), d \in Destinations :
          /\ ctx.subs[i] > 0
          /\ ctx' = [ctx EXCEPT !.subs[i] = @ - 1,
                                !.last = Last("recordDestination", d)]
          /\ out' = out \o recordDestination(ctx.obj, d[1], d[2], d[3])
    /\ UNCHANGED <<parserVars, loop>>

\* a sub-request or traversal reached a shard splitter
RecordShardSplitter ==
    /\ Alive
    /\ \E i \in 1..Len(ctx.subs) :
          /\ ctx.subs[i] > 0
          /\ ctx' = [ctx EXCEPT !.subs[i] = @ - 1,
                                !.last = Last("recordShardSplitter",
                                              <<"splitter">>)]
          /\ out' = out \o recordShardSplitter(ctx.obj, "splitter")
    /\ UNCHANGED <<parserVars, loop>>

\* a sub-request or traversal finished and lets go of the context
FinishSubRequest ==
    /\ Alive
    /\ \E i \in 1..Len(ctx.subs) :
          /\ ctx.subs[i] = 0
          /\ \E r \in {dropRef([ctx EXCEPT !.subs = Remove(@, i)])} :
                /\ ctx' = [r.x EXCEPT !.last = NoLast]
                /\ out' = out \o r.eff
    /\ UNCHANGED <<parserVars, loop>>

\* the route tree calls sendReply on the context it processes
SendReply ==
    /\ ctx.owner = "shared"
    /\ ~ctx.obj.recording_
    /\ ctx.obj.processing_
    /\ ctx.sends < MaxSendReply
    /\ \E reply \in Replies :
          \E r \in {sendReply(ctx.obj, reply)} :
             /\ ctx' = [ctx EXCEPT !.obj = r.c, !.sends = @ + 1,
                                   !.last = Last("sendReply", <<reply>>)]
             /\ out' = out \o r.eff
    /\ UNCHANGED <<parserVars, loop>>

\* the holder of the shared_ptr that process() or createRecording()
\* returned lets go of it
ReleaseHandle ==
    /\ ctx.owner = "shared"
    /\ ctx.handle
    /\ \E r \in {dropRef([ctx EXCEPT !.handle = FALSE])} :
          /\ ctx' = [r.x EXCEPT !.last = NoLast]
          /\ out' = out \o r.eff
    /\ UNCHANGED <<parserVars, loop>>

\* the unique_ptr goes away before the context was handed to a proxy
DestroyUnique ==
    /\ ctx.owner = "unique"
    /\ ctx' = [ctx EXCEPT !.owner = "destroyed", !.last = NoLast]
    /\ out' = out \o Destructor(ctx.obj)
    /\ UNCHANGED <<parserVars, loop>>

NextCtx ==
    \/ Process
    \/ StartProcessing
    \/ Traverse
    \/ OnReplyReceived
    \/ RecordDestination
    \/ RecordShardSplitter
    \/ FinishSubRequest
    \/ SendReply
    \/ ReleaseHandle
    \/ DestroyUnique

SpecCtx == InitCtx /\ [][NextCtx]_vars

TypeOKCtx ==
    /\ ctx.owner \in {"unique", "shared", "destroyed"}
    /\ ctx.refs = (IF ctx.handle THEN 1 ELSE 0) + Len(ctx.subs)
    /\ ctx.owner = "shared" <=> ctx.refs > 0

(***************************************************************************)
(* Properties of the request context.                                      *)
(***************************************************************************)
\* what the last call on the context added to out
SinceLast == SubSeq(out, ctx.last.at + 1, Len(out))

\* the replies the client of the request sees
ClientReplies == SelectSeq(out, LAMBDA x : x.e = "sendReplyImpl")

Count(name) == Len(SelectSeq(out, LAMBDA x : x.e = name))

Typed == ctx.owner # "none" /\ ~ctx.obj.recording_

\* C11: on a typed context the first sendReply hands its reply to
\* sendReplyImpl, sets replied_ and nulls req_; every later sendReply is
\* detected as misuse and sends nothing, so sendReply calls put exactly one
\* reply downstream.
C11_FirstSendReplyOnly ==
    Typed =>
        /\ ctx.sends = 0 => (~ctx.obj.replied_ /\ ctx.obj.req_ = "req")
        /\ ctx.sends >= 1 =>
              /\ ctx.obj.replied_
              /\ ctx.obj.req_ = "nullptr"
              /\ Len(ClientReplies) = 1
              /\ ClientReplies[1].reply \in Replies
        /\ (ctx.last.op = "sendReply" /\ ctx.sends = 1) =>
              SinceLast = <<[e |-> "sendReplyImpl",
                             reply |-> ctx.last.args[1]]>>
        /\ (ctx.last.op = "sendReply" /\ ctx.sends > 1) =>
              SinceLast = <<Effect("misuse")>>

\* sendReply("r1") was followed by sendReply("r2") and only r1 went out
C11_Witness ==
    /\ Typed
    /\ ctx.sends = 2
    /\ ctx.last.op = "sendReply"
    /\ ctx.last.args = <<"r2">>
    /\ ClientReplies = <<[e |-> "sendReplyImpl", reply |-> "r1"]>>

\* C12: a context that is not recording ends in one of two ways: sendReply
\* was called on it, or its destructor found replied_ false and sent the
\* error reply.  Either way the client sees exactly one reply once the
\* context is gone, and never two before.
C12_ExactlyOneClientReply ==
    Typed =>
        /\ Len(ClientReplies) <= 1
        /\ ctx.owner = "destroyed" =>
              /\ Len(ClientReplies) = 1
              /\ ctx.sends >= 1 => ClientReplies[1].reply \in Replies
              /\ ctx.sends = 0 =>
                    /\ ~ctx.obj.replied_
                    /\ ClientReplies[1].reply = "error"

\* a context that was processed, whose sub-requests all finished and on
\* which nobody called sendReply, is gone and the error reply went out
C12_Witness ==
    /\ Typed
    /\ ctx.owner = "destroyed"
    /\ ctx.launched = MaxSubRequests
    /\ ctx.sends = 0
    /\ ClientReplies = <<[e |-> "sendReplyImpl", reply |-> "error"]>>

\* C13: reqComplete_ is called at most once, after the client's reply went
\* out and after every sub-request that held the context finished: it is
\* the last thing the context does, and no reference is left then.
C13_CompletionAfterEverything ==
    Typed =>
        /\ Count("reqComplete") <= 1
        /\ Count("reqComplete") = 1 =>
              /\ out[Len(out)] = Effect("reqComplete")
              /\ Len(ClientReplies) = 1
              /\ ctx.subs = <<>>
              /\ ctx.refs = 0
              /\ ctx.owner = "destroyed"

\* the hook fired for a context that was replied to while sub-requests were
\* out, whose replies were logged before the hook fired
C13_Witness ==
    /\ Typed
    /\ Count("reqComplete") = 1
    /\ ctx.launched = MaxSubRequests
    /\ ctx.sends = 1
    /\ out[1].e = "sendReplyImpl"
    /\ Count("logger") >= MaxSubRequests

\* C14: recordDestination calls the client callback once, with its own
\* three arguments, on a recording context that has the callback, and
\* calls nothing on any other context; recordShardSplitter does the same
\* with the shard split callback.
C14_RecordingForwardsOnce ==
    /\ ctx.owner # "none" /\ ctx.last.op = "recordDestination" =>
          SinceLast =
              IF ctx.obj.recording_ /\ ctx.obj.recordingState_.clientCallback
              THEN <<[e |-> "clientCallback", args |-> ctx.last.args]>>
              ELSE <<>>
    /\ ctx.owner # "none" /\ ctx.last.op = "recordShardSplitter" =>
          SinceLast =
              IF ctx.obj.recording_
                 /\ ctx.obj.recordingState_.shardSplitCallback
              THEN <<[e |-> "shardSplitCallback", args |-> ctx.last.args]>>
              ELSE <<>>

\* recordDestination("poolA", 3, ap), the only visit of a traversal, on a
\* recording context with a client callback and no shard split callback
C14_Witness ==
    /\ ctx.owner = "shared"
    /\ ctx.obj.recording_
    /\ ~ctx.obj.recordingState_.shardSplitCallback
    /\ ctx.last.op = "recordDestination"
    /\ ctx.last.args = <<"poolA", 3, "ap1">>
    /\ ctx.last.at = 0
    /\ ctx.launched = 1
    /\ ctx.subs = <<0>>
    /\ out = <<[e |-> "clientCallback", args |-> <<"poolA", 3, "ap1">>]>>

\* C15: onReplyReceived calls nothing on a recording context; on any other
\* context every call, before or after the client's reply, calls the
\* primary logger and then the additional logger, once each.
C15_LoggersInOrder ==
    (ctx.owner # "none" /\ ctx.last.op = "onReplyReceived") =>
        SinceLast = IF ctx.obj.recording_ THEN <<>>
                    ELSE <<Effect("logger"), Effect("additionalLogger")>>

\* a backend reply that came after the client was replied to was logged
C15_Witness ==
    /\ Typed
    /\ ctx.obj.replied_
    /\ ctx.last.op = "onReplyReceived"
    /\ out[1].e = "sendReplyImpl"
    /\ Count("logger") = 2
    /\ SinceLast = <<Effect("logger"), Effect("additionalLogger")>>

\* C16: the baton of a context made by createRecordingNotify is posted
\* exactly once, when the context is destroyed, and that is when the last
\* reference went: no traversal holds the context then, and every
\* destination the traversals reached has been handed to the client
\* callback before.  A context made by createRecording posts nothing.
C16_BatonAtDestruction ==
    (ctx.owner # "none" /\ ctx.obj.recording_) =>
        /\ ~ctx.obj.baton => Count("baton.post") = 0
        /\ ctx.obj.baton =>
              /\ Count("baton.post") = (IF ctx.owner = "destroyed" THEN 1
                                        ELSE 0)
              /\ ctx.owner = "destroyed" =>
                    /\ out[Len(out)] = Effect("baton.post")
                    /\ ctx.refs = 0
                    /\ ctx.subs = <<>>

\* the creator let go of the context while two traversals were under way;
\* the baton was posted after both had recorded their destinations
C16_Witness ==
    /\ ctx.owner = "destroyed"
    /\ ctx.obj.recording_
    /\ ctx.obj.baton
    /\ ctx.launched = 2
    /\ Count("clientCallback") >= 2
    /\ out[Len(out)] = Effect("baton.post")

(***************************************************************************)
(* The parser with reset().  The owner may call reset() between two read   *)
(* cycles; the pending bytes are dropped with the buffer's contents.       *)
(***************************************************************************)
Reset ==
    /\ pc = "idle"
    /\ call.ret # "none"
    /\ parser' = reset(parser)
    /\ base' = fed
    /\ call' = NoCall
    /\ track' = NoTrack
    /\ UNCHANGED <<wire, fed, pc, maxLen, events, hist, done, chunked>>
    /\ UNCHANGED <<ctx, out, loop>>

NextReset ==
    \/ Next
    \/ Reset

\* parsers of the largest configured sizes, with the exact allocator
InitReset ==
    /\ Init
    /\ parser.bufferSize_ = MaxCfgSize
    /\ parser.maxBufferSize_ = MaxCfgSize
    /\ hist.slack = 0

SpecReset == InitReset /\ [][NextReset]_vars

\* C17 (as claimed): once seenFirstByte_ is set the protocol is one of
\* ASCII, Umbrella and Caret, and a protocol that was detected never
\* changes, whatever readDataAvailable and reset calls follow.
C17_ProtocolKnownAndFixed ==
    [][/\ parser'.seenFirstByte_ =>
             parser'.protocol_ # "mc_unknown_protocol"
       /\ parser.seenFirstByte_ =>
             /\ parser'.seenFirstByte_
             /\ parser'.protocol_ = parser.protocol_]_vars

\* C18: a readDataAvailable call adds to parsedMessages_ the number of
\* frames the message callback accepted in it, unless the shrink step ran
\* with its three conditions true, which leaves the counter at 0; nothing
\* else changes the counter (BulkCaretTraffic stands for
\* kAdjustBufferSizeInterval - 1 accepted frames).
C18_CounterCountsAcceptedFrames ==
    [][IF pc = "acquired"
       THEN /\ parser'.parsedMessages_ =
                   IF call'.shrunk THEN 0
                   ELSE parser.parsedMessages_ + Len(Accepted(call'.ev))
            /\ call'.shrunk => call'.cond
       ELSE IF hist'.bulk # hist.bulk
       THEN parser'.parsedMessages_ = parser.parsedMessages_ + hist'.bulk
       ELSE parser'.parsedMessages_ = parser.parsedMessages_]_vars

\* one call delivered two frames and the counter went from 0 to 2
C18_Witness ==
    /\ pc = "idle"
    /\ hist.bulk = 0
    /\ Len(Accepted(call.ev)) = 2
    /\ Len(call.ev) = 2
    /\ parser.parsedMessages_ = 2

WideParseHeader(protocol, buf) ==
    IF Len(buf) = 0 THEN [status |-> "NOT_ENOUGH_DATA", info |-> NoInfo]
    ELSE IF protocol = "mc_umbrella_protocol"
    THEN IF buf[1] # kUmbrellaMagicByte
         THEN [status |-> "MESSAGE_PARSE_ERROR", info |-> NoInfo]
         ELSE IF Len(buf) < kUmbrellaFixedHeader
         THEN [status |-> "NOT_ENOUGH_DATA", info |-> NoInfo]
         ELSE IF kUmbrellaFixedHeader + buf[2] >= kSizeModulus
                 \/ buf[3] >= kSizeModulus
         THEN [status |-> "MESSAGE_PARSE_ERROR", info |-> NoInfo]
         ELSE [status |-> "OK",
               info |-> [headerSize |-> kUmbrellaFixedHeader + buf[2],
                         bodySize |-> buf[3]]]
    ELSE IF buf[1] # kCaretMagicByte
         THEN [status |-> "MESSAGE_PARSE_ERROR", info |-> NoInfo]
         ELSE IF Len(buf) < kCaretHeader
         THEN [status |-> "NOT_ENOUGH_DATA", info |-> NoInfo]
         ELSE IF buf[2] >= kSizeModulus
         THEN [status |-> "MESSAGE_PARSE_ERROR", info |-> NoInfo]
         ELSE [status |-> "OK",
               info |-> [headerSize |-> kCaretHeader, bodySize |-> buf[2]]]

\* const auto messageSize = umMsgInfo_.headerSize + umMsgInfo_.bodySize
MessageSize(info) == (info.headerSize + info.bodySize) % kSizeModulus

LoopBytes == {kUmbrellaMagicByte, kCaretMagicByte, 0, 1, kSizeModulus - kCaretHeader}

RECURSIVE LoopBuffers(_)
LoopBuffers(n) ==
    IF n = 0 THEN {<<>>}
    ELSE LoopBuffers(n - 1) \cup
         {Append(b, x) : b \in {c \in LoopBuffers(n - 1) : Len(c) = n - 1},
                         x \in LoopBytes}

InitLoop ==
    /\ parser = McParser(1, 1, FALSE, 0)
    /\ wire = <<>>
    /\ fed = 0
    /\ base = 0
    /\ pc = "idle"
    /\ maxLen = 0
    /\ events = <<>>
    /\ call = NoCall
    /\ hist = [slack |-> 0, failed |-> FALSE, bulk |-> 0]
    /\ track = NoTrack
    /\ done = NoDone
    /\ chunked = Idle(McParser(1, 1, FALSE, 0))
    /\ ctx = NoContext
    /\ out = <<>>
    /\ \E protocol \in {"mc_umbrella_protocol", "mc_caret_protocol"},
          buf \in LoopBuffers(MaxLoopLen) :
          loop = [at |-> "top", protocol |-> protocol, buf |-> buf,
                  info |-> NoInfo, ready |-> <<>>, ret |-> "none"]

Parsed == WideParseHeader(loop.protocol, loop.buf)

Return(ret) == [loop EXCEPT !.at = "returned", !.ret = ret]

\* while (readBuffer_.length() > 0) fails: return true
LoopExit ==
    /\ loop.at = "top"
    /\ Len(loop.buf) = 0
    /\ loop' = Return("true")
    /\ UNCHANGED <<parserVars, ctx, out>>

\* NOT_ENOUGH_DATA: return true
LoopNotEnoughData ==
    /\ loop.at = "top"
    /\ Len(loop.buf) > 0
    /\ Parsed.status = "NOT_ENOUGH_DATA"
    /\ loop' = Return("true")
    /\ UNCHANGED <<parserVars, ctx, out>>

\* any other status than OK: parseError, return false
LoopParseError ==
    /\ loop.at = "top"
    /\ Len(loop.buf) > 0
    /\ Parsed.status = "MESSAGE_PARSE_ERROR"
    /\ loop' = Return("false")
    /\ UNCHANGED <<parserVars, ctx, out>>

\* Case 1: the callback gets the buffer; then trimStart(messageSize) and
\* the next iteration, or clear and return false
LoopMessageReady ==
    /\ loop.at = "top"
    /\ Len(loop.buf) > 0
    /\ Parsed.status = "OK"
    /\ Len(loop.buf) >= MessageSize(Parsed.info)
    /\ Len(loop.ready) < MaxIter
    /\ \E ok \in BOOLEAN :
          LET l1 == [loop EXCEPT !.info = Parsed.info,
                                 !.ready = Append(@, [info |-> Parsed.info,
                                                      buf |-> loop.buf])]
          IN loop' = IF ok
                     THEN [l1 EXCEPT !.buf = SubSeq(@, MessageSize(Parsed.info) + 1,
                                                    Len(@))]
                     ELSE [l1 EXCEPT !.buf = <<>>, !.at = "returned",
                                     !.ret = "false"]
    /\ UNCHANGED <<parserVars, ctx, out>>

\* Case 2: the header is not complete: return true
LoopWaitHeader ==
    /\ loop.at = "top"
    /\ Len(loop.buf) > 0
    /\ Parsed.status = "OK"
    /\ Len(loop.buf) < MessageSize(Parsed.info)
    /\ Len(loop.buf) < Parsed.info.headerSize
    /\ loop' = [Return("true") EXCEPT !.info = Parsed.info]
    /\ UNCHANGED <<parserVars, ctx, out>>

\* Case 3: the body is not complete: return true
LoopWaitBody ==
    /\ loop.at = "top"
    /\ Len(loop.buf) > 0
    /\ Parsed.status = "OK"
    /\ Len(loop.buf) < MessageSize(Parsed.info)
    /\ Len(loop.buf) >= Parsed.info.headerSize
    /\ loop' = [Return("true") EXCEPT !.info = Parsed.info]
    /\ UNCHANGED <<parserVars, ctx, out>>

NextLoop ==
    \/ LoopExit
    \/ LoopNotEnoughData
    \/ LoopParseError
    \/ LoopMessageReady
    \/ LoopWaitHeader
    \/ LoopWaitBody

SpecLoop == InitLoop /\ [][NextLoop]_vars

TypeOKLoop ==
    /\ loop.at \in {"top", "returned"}
    /\ loop.ret \in {"none", "true", "false"}
    /\ loop.at = "returned" <=> loop.ret # "none"
    /\ Len(loop.buf) <= MaxLoopLen
    /\ Len(loop.ready) <= MaxIter

\* C20: an iteration of the dispatch loop that hands a frame to the
\* message callback and goes on leaves a strictly shorter pending region,
\* so that no bytes are delivered twice and the loop ends.
C20_DeliveryShrinksPending ==
    [][(loop'.at = "top" /\ Len(loop'.ready) > Len(loop.ready))
           => Len(loop'.buf) < Len(loop.buf)]_vars

====
